---- MODULE Spec2Model ----
(***************************************************************************)
(* Classification-and-dispatch engine of the image analysis backend:       *)
(* the response normalizer, the keyword classifier, the Cerebras endpoint  *)
(* prober, the classifier cascade and the task dispatcher.                 *)
(*                                                                         *)
(* Texts are TLA+ strings; Len, SubSeq and \o act on them character by     *)
(* character, so the Python string operations are computed, not assumed.   *)
(***************************************************************************)
EXTENDS Integers, Sequences, FiniteSets, TLC

VARIABLES
    text,           \* SpecText: the string handed to the pure text functions
    parsed,         \* SpecText: qwen_model.parse_task_from_response(text), or None
    parsedC,        \* SpecText: cerebras_qwen.parse_task_from_response(text), or None
    mocked,         \* SpecText: mock_classify_task(text), or None
    use_cerebras,   \* env USE_CEREBRAS_QWEN, lower-cased, equals "true"
    api_url,        \* env CEREBRAS_API_URL (CerebrasConfig.api_url)
    question,       \* classify_task_with_qwen's argument
    image_context,  \* classify_task_with_qwen's argument, a text or None
    pc,             \* where classify_task_with_qwen stands
    prober_state,   \* _find_working_endpoint: "idle", "running" or "returned"
    idx,            \* _find_working_endpoint: position of the next candidate
    probe_log,      \* the HEAD probes of the current prober run, in issue order
    working_url,    \* what the last prober run returned (a URL or None)
    probe_count,    \* HEAD probes per URL since call_cerebras_qwen was entered
    attempted,      \* the tiers entered so far, in order
    answer,         \* what each tier's remote end (or local model) answered
    result,         \* classify_task_with_qwen's return value, None before it returns
    task,           \* handle_task's argument
    h_pc,           \* where handle_task stands
    endpoint,       \* handle_task: the handler endpoint chosen
    model_used,     \* handle_task: its local model_used
    handled,        \* handle_task's return value (result, model), None before it returns
    ocr_endpoints,  \* the endpoints chosen so far for task OCR
    dispatched,     \* the calls of handle_task so far
    h_response,     \* handle_task: what its client.post met, None before that
    choices,        \* the <<task, endpoint>> pairs of the calls so far
    logs_file,      \* the file logs.json: whether it exists, decodes, and its entries
    now,            \* what time.time() returns, in milliseconds
    a_pc,           \* where each analyze request stands
    locals,         \* the local variables of each call of analyze_image
    returned,       \* what the caller of each analyze request received
    appends,        \* how many times each request wrote its entry to logs.json
    looked_up,      \* the outcome of get_result when the last step was a call of it
    t_call,         \* a call of a /task/<endpoint> handler and what it meets
    t_reply,        \* what that handler answered, NoReply before it returns
    board_logs,     \* leaderboard: the file logs.json as get_leaderboard finds it
    task_filter,    \* leaderboard: its query parameter task, None when absent
    log_board,      \* leaderboard: the body of its last answer, NoBoard before
    model_metrics,  \* metrics: the module-level list record_metric appends to
    metric_board    \* metrics: the body of the last leaderboard answer

textVars == <<text, parsed, parsedC, mocked>>

cascadeVars ==
    <<use_cerebras, api_url, question, image_context, pc, prober_state, idx,
      probe_log, working_url, probe_count, attempted, answer, result>>

dispatchVars ==
    <<task, h_pc, endpoint, model_used, handled, ocr_endpoints, dispatched,
      h_response, choices>>

analyzeVars == <<logs_file, now, a_pc, locals, returned, appends, looked_up>>

handlerVars == <<t_call, t_reply>>

boardVars == <<board_logs, task_filter, log_board, model_metrics, metric_board>>

vars == <<textVars, cascadeVars, dispatchVars, analyzeVars, handlerVars, boardVars>>

\* What the actions of one specification leave alone.
notText == <<cascadeVars, dispatchVars, analyzeVars, handlerVars, boardVars>>
notCascade == <<textVars, dispatchVars, analyzeVars, handlerVars, boardVars>>
notDispatch == <<textVars, cascadeVars, analyzeVars, handlerVars, boardVars>>
notAnalyze == <<textVars, cascadeVars, dispatchVars, handlerVars, boardVars>>
notHandlers == <<textVars, cascadeVars, dispatchVars, analyzeVars, boardVars>>
notBoards == <<textVars, cascadeVars, dispatchVars, analyzeVars, handlerVars>>

\* Python's None (a value no text and no label equals).
None == "<None>"

-----------------------------------------------------------------------------
(* Python str operations, on ASCII text *)

UpperToLower ==
    [A |-> "a", B |-> "b", C |-> "c", D |-> "d", E |-> "e", F |-> "f", G |-> "g",
     H |-> "h", I |-> "i", J |-> "j", K |-> "k", L |-> "l", M |-> "m", N |-> "n",
     O |-> "o", P |-> "p", Q |-> "q", R |-> "r", S |-> "s", T |-> "t", U |-> "u",
     V |-> "v", W |-> "w", X |-> "x", Y |-> "y", Z |-> "z"]

LowerChar(c) == IF c \in DOMAIN UpperToLower THEN UpperToLower[c] ELSE c

\* The per-character maps below split the text in halves, so that a long
\* prompt does not nest one evaluation per character.
RECURSIVE lowerRange(_, _, _)
lowerRange(s, a, b) ==
    IF a > b THEN ""
    ELSE IF a = b THEN LowerChar(SubSeq(s, a, a))
    ELSE LET m == (a + b) \div 2 IN lowerRange(s, a, m) \o lowerRange(s, m + 1, b)

\* str.lower()
lower(s) == lowerRange(s, 1, Len(s))

RECURSIVE replaceRange(_, _, _, _, _)
replaceRange(s, old, new, a, b) ==
    IF a > b THEN ""
    ELSE IF a = b THEN (IF SubSeq(s, a, a) = old THEN new ELSE SubSeq(s, a, a))
    ELSE LET m == (a + b) \div 2 IN
         replaceRange(s, old, new, a, m) \o replaceRange(s, old, new, m + 1, b)

\* str.replace(old, new) for a one-character old
replace(s, old, new) == replaceRange(s, old, new, 1, Len(s))

\* sub in s
In(sub, s) ==
    \E i \in 1..(Len(s) - Len(sub) + 1) : SubSeq(s, i, i + Len(sub) - 1) = sub

\* s.startswith(prefix)
startswith(s, prefix) ==
    Len(s) >= Len(prefix) /\ SubSeq(s, 1, Len(prefix)) = prefix

\* any(keyword in s for keyword in keywords)
any_in(keywords, s) == \E k \in 1..Len(keywords) : In(keywords[k], s)

-----------------------------------------------------------------------------
(* Response normalizer *)

valid_tasks ==
    <<"OCR", "Image Captioning", "Visual QA", "Image Classification",
      "Object Detection", "Style Transfer", "Medical Diagnosis", "Other">>

\* The eight canonical task labels.
TaskLabel ==
    {"OCR", "Image Captioning", "Visual QA", "Image Classification",
     "Object Detection", "Style Transfer", "Medical Diagnosis", "Other"}

\* response.lower().replace(".", "").replace(",", "").replace("?", "").replace("!", "")
strip_punctuation(response) ==
    replace(replace(replace(replace(lower(response), ".", ""), ",", ""), "?", ""), "!", "")

RECURSIVE first_task_in(_, _, _)
first_task_in(tasks, response, i) ==
    IF i > Len(tasks) THEN "Other"
    ELSE IF In(lower(tasks[i]), response) THEN tasks[i]
    ELSE first_task_in(tasks, response, i + 1)

RECURSIVE last_task_in(_, _, _)
last_task_in(tasks, response, i) ==
    IF i < 1 THEN "Other"
    ELSE IF In(lower(tasks[i]), response) THEN tasks[i]
    ELSE last_task_in(tasks, response, i - 1)

\* a normalizer whose loop does not stop at the first vocabulary match
parse_task_last_match(response) ==
    last_task_in(valid_tasks, strip_punctuation(response), Len(valid_tasks))

\* qwen_model.parse_task_from_response
parse_task_from_response(response) ==
    first_task_in(valid_tasks, strip_punctuation(response), 1)

\* cerebras_qwen.parse_task_from_response (a second copy of the same code)
cerebras_parse_task_from_response(response) ==
    first_task_in(valid_tasks, strip_punctuation(response), 1)

-----------------------------------------------------------------------------
(* Keyword classifier *)

medical_keywords ==
    <<"medical", "diagnosis", "health", "doctor", "patient", "disease",
      "condition", "symptoms", "diagnose">>
ocr_keywords ==
    <<"text", "read", "extract", "ocr", "words", "letters", "characters", "document">>
classification_keywords ==
    <<"classify", "category", "type", "kind", "sort", "group", "label">>
object_keywords ==
    <<"objects", "items", "things", "find", "locate", "bounding box",
      "coordinates", "detect">>
style_keywords ==
    <<"style", "art", "transform", "convert", "change style", "make it look like">>
caption_keywords ==
    <<"describe", "caption", "what is this", "what do you see", "scene",
      "picture", "image">>
vqa_keywords ==
    <<"what color", "how many", "count", "identify", "recognize">>

\* a keyword classifier that tests the OCR keywords before the medical ones
mock_classify_ocr_first(q) ==
    LET question_lower == lower(q) IN
    IF any_in(ocr_keywords, question_lower) THEN "OCR"
    ELSE IF any_in(medical_keywords, question_lower) THEN "Medical Diagnosis"
    ELSE IF any_in(classification_keywords, question_lower) THEN "Image Classification"
    ELSE IF any_in(object_keywords, question_lower) THEN "Object Detection"
    ELSE IF any_in(style_keywords, question_lower) THEN "Style Transfer"
    ELSE IF any_in(caption_keywords, question_lower) THEN "Image Captioning"
    ELSE IF any_in(vqa_keywords, question_lower) THEN "Visual QA"
    ELSE IF \/ startswith(question_lower, "what")
            \/ startswith(question_lower, "where")
            \/ startswith(question_lower, "how") THEN "Visual QA"
    ELSE "Other"

mock_classify_task(q) ==
    LET question_lower == lower(q) IN
    IF any_in(medical_keywords, question_lower) THEN "Medical Diagnosis"
    ELSE IF any_in(ocr_keywords, question_lower) THEN "OCR"
    ELSE IF any_in(classification_keywords, question_lower) THEN "Image Classification"
    ELSE IF any_in(object_keywords, question_lower) THEN "Object Detection"
    ELSE IF any_in(style_keywords, question_lower) THEN "Style Transfer"
    ELSE IF any_in(caption_keywords, question_lower) THEN "Image Captioning"
    ELSE IF any_in(vqa_keywords, question_lower) THEN "Visual QA"
    ELSE IF \/ startswith(question_lower, "what")
            \/ startswith(question_lower, "where")
            \/ startswith(question_lower, "how") THEN "Visual QA"
    ELSE "Other"

-----------------------------------------------------------------------------
(* Exceptions: a raised exception is named by its class, "none" = no raise *)

\* isinstance(exc(), cls) for the classes the code names in its except clauses.
\* requests' JSONDecodeError, ConnectionError and Timeout derive from
\* RequestException; every class here derives from Exception.
IsA(exc, cls) ==
    \/ cls = "Exception"
    \/ cls = exc
    \/ cls = "RequestException" /\ exc \in {"ConnectionError", "Timeout", "JSONDecodeError"}

\* A JSON value that is not a str (null, a number): what result.get() hands back
\* when the field holds one.
NotStr == "<not a str>"

-----------------------------------------------------------------------------
(* Cerebras endpoint prober *)

DefaultApiUrl == "https://api.cerebras.com/v1/chat/completions"

fallback_urls ==
    <<"https://api.cerebras.com/v1/completions",
      "https://api.cerebras.com/chat/completions",
      "https://api.cerebras.com/completions",
      "https://cerebras-api.com/v1/chat/completions",
      "https://cerebras-api.com/v1/completions">>

\* [self.config.api_url] + self.config.fallback_urls
urls_to_try == <<api_url>> \o fallback_urls

\* a connectivity test that also accepts status 500
test_endpoint_accepts_500(probe) ==
    IF probe.raised THEN FALSE ELSE probe.status <= 500

\* session.head(url, timeout=5) answered `probe`: reachable unless it raised or
\* answered a server error
_test_endpoint_connectivity(probe) ==
    IF probe.raised THEN FALSE ELSE probe.status < 500

\* a prober loop that records a reachable candidate but keeps probing, and
\* reports only once the list is exhausted
find_working_endpoint_no_return(urls, i, probe) ==
    IF i = Len(urls)
    THEN [state |-> "returned", idx |-> i,
          working_url |-> IF _test_endpoint_connectivity(probe) THEN urls[i] ELSE None]
    ELSE [state |-> "running", idx |-> i + 1, working_url |-> None]

\* One iteration of _find_working_endpoint's loop, for candidate i whose HEAD
\* probe was answered by `probe`: return the URL, go on, or return None.
_find_working_endpoint(urls, i, probe) ==
    IF _test_endpoint_connectivity(probe)
    THEN [state |-> "returned", idx |-> i, working_url |-> urls[i]]
    ELSE IF i = Len(urls)
    THEN [state |-> "returned", idx |-> i, working_url |-> None]
    ELSE [state |-> "running", idx |-> i + 1, working_url |-> None]

-----------------------------------------------------------------------------
(* Cerebras tier *)

\* A prompt that is the question alone.
classification_prompt_question_only(q, ctx) == q

\* The prompt classify_task_with_cerebras_qwen builds (ai_classifier's
\* prompt_template holds the same text).
classification_prompt(q, ctx) ==
    "\nClassify the AI task based on the question and image description.\n\nQuestion: "
    \o q \o "\nImage: "
    \o (IF ctx = None \/ ctx = "" THEN "No image context provided" ELSE ctx)
    \o "\n\nRespond with exactly one of these options:\n- OCR\n- Image Captioning\n"
    \o "- Visual QA\n- Image Classification\n- Object Detection\n- Style Transfer\n"
    \o "- Medical Diagnosis\n- Other\n\nTask:"

\* prompt[:100]
first_100(prompt) == SubSeq(prompt, 1, IF Len(prompt) < 100 THEN Len(prompt) ELSE 100)

_fallback_response(prompt) ==
    LET prompt_lower == lower(prompt) IN
    IF In("classify", prompt_lower) \/ In("task", prompt_lower)
    THEN IF any_in(<<"text", "extract", "read", "ocr">>, prompt_lower) THEN "OCR"
         ELSE IF any_in(<<"describe", "caption", "what is this">>, prompt_lower)
              THEN "Image Captioning"
         ELSE IF any_in(<<"what color", "how many", "count", "visual qa", "vqa">>,
                        prompt_lower)
              THEN "Visual QA"
         ELSE IF any_in(<<"classify", "category", "type">>, prompt_lower)
              THEN "Image Classification"
         ELSE IF any_in(<<"detect", "objects", "find">>, prompt_lower)
              THEN "Object Detection"
         ELSE IF any_in(<<"style", "art", "transfer">>, prompt_lower)
              THEN "Style Transfer"
         ELSE IF any_in(<<"medical", "diagnosis", "health">>, prompt_lower)
              THEN "Medical Diagnosis"
         ELSE "Other"
    ELSE "Fallback response: I'm currently using a simplified response system. Your prompt was: '"
         \o first_100(prompt) \o "...'"

\* CerebrasQwenClient.generate from its session.post on: `a` is what the POST
\* met. A result dict, or the exception that leaves generate.
generate(a) ==
    IF a.fault # "none"
    THEN IF \/ IsA(a.fault, "ConnectionError") \/ IsA(a.fault, "Timeout")
            \/ IsA(a.fault, "RequestException")
         THEN [raised |-> "none", success |-> FALSE, response |-> None]
         ELSE [raised |-> a.fault, success |-> FALSE, response |-> None]
    ELSE IF a.status = 200
    THEN CASE a.body = "text" -> [raised |-> "none", success |-> TRUE, response |-> a.text]
           [] a.body = "no_field" -> [raised |-> "none", success |-> TRUE, response |-> ""]
           [] a.body = "not_text" -> [raised |-> "none", success |-> TRUE, response |-> NotStr]
           \* response.json() raises requests' JSONDecodeError, caught as RequestException
           [] a.body = "undecodable" -> [raised |-> "none", success |-> FALSE, response |-> None]
           \* the body is JSON but no object: result.get raises AttributeError
           [] a.body = "not_object" ->
                  [raised |-> "AttributeError", success |-> FALSE, response |-> None]
    ELSE [raised |-> "none", success |-> FALSE, response |-> None]

\* call_cerebras_qwen after its own prober run found an endpoint: `found` tells
\* whether generate's prober run found one too, `a` what generate's POST met.
call_cerebras_qwen(found, a, prompt) ==
    IF ~found
    THEN [raised |-> "none", value |-> _fallback_response(prompt)]
    ELSE LET g == generate(a) IN
         IF g.raised # "none" THEN [raised |-> g.raised, value |-> None]
         ELSE IF g.success THEN [raised |-> "none", value |-> g.response]
         ELSE [raised |-> "none", value |-> _fallback_response(prompt)]

\* classify_task_with_cerebras_qwen from call_cerebras_qwen's return on.
classify_task_with_cerebras_qwen(called) ==
    IF called.raised # "none" THEN called
    ELSE IF called.value = NotStr
    THEN [raised |-> "AttributeError", value |-> None]      \* response.lower()
    ELSE IF startswith(called.value, "Fallback response:")
    THEN [raised |-> "none", value |-> called.value]
    ELSE [raised |-> "none", value |-> cerebras_parse_task_from_response(called.value)]

-----------------------------------------------------------------------------
(* Primary remote tier *)

\* call_qwen_model_api from its requests.post on: `a` is what the POST met.
call_qwen_model_api(a) ==
    IF a.fault # "none"
    THEN IF IsA(a.fault, "RequestException")
         THEN [raised |-> "none", value |-> "Error: Failed to call Qwen API - " \o a.fault]
         ELSE [raised |-> a.fault, value |-> None]
    ELSE IF a.status = 200
    THEN CASE a.body = "text" -> [raised |-> "none", value |-> a.text]
           [] a.body = "no_field" -> [raised |-> "none", value |-> "No response text"]
           [] a.body = "not_text" -> [raised |-> "none", value |-> NotStr]
           [] a.body = "undecodable" ->
                  [raised |-> "none", value |-> "Error: Failed to call Qwen API - JSONDecodeError"]
           [] a.body = "not_object" -> [raised |-> "AttributeError", value |-> None]
    ELSE [raised |-> "none", value |-> "Error: API call failed with status " \o ToString(a.status)]

\* classify_task_with_qwen's inner try around the primary call: the label to
\* return, or None to go on to the local model.
primary_tier(a) ==
    LET response == call_qwen_model_api(a) IN
    IF response.raised # "none" THEN None                 \* except Exception as api_error
    ELSE IF response.value = NotStr THEN None             \* response.startswith raises
    ELSE IF ~startswith(response.value, "Error:")
    THEN parse_task_from_response(response.value)
    ELSE None

\* classify_task_with_qwen's fallback to call_qwen_model_local: `a` is what
\* loading and running the local model gave.
local_tier(a) ==
    IF a.fault # "none"
    THEN IF IsA(a.fault, "Exception") THEN [raised |-> "none", value |-> "Other"]
         ELSE [raised |-> a.fault, value |-> None]
    ELSE [raised |-> "none", value |-> parse_task_from_response(a.text)]

-----------------------------------------------------------------------------
(* Task dispatcher: analyze.handle_task *)

\* a mapping that lost its medical entry: the label goes to "other"
task_mapping_without_medical ==
    [t \in {"OCR", "Image Captioning", "Visual QA", "Image Classification",
            "Object Detection", "Style Transfer", "Medical Diagnosis", "Other"} |->
        CASE t = "OCR" -> "pytesseract"
          [] t = "Image Captioning" -> "caption"
          [] t = "Visual QA" -> "vqa"
          [] OTHER -> "other"]

task_mapping ==
    [t \in {"OCR", "Image Captioning", "Visual QA", "Image Classification",
            "Object Detection", "Style Transfer", "Medical Diagnosis", "Other"} |->
        CASE t = "OCR" -> "pytesseract"
          [] t = "Image Captioning" -> "caption"
          [] t = "Visual QA" -> "vqa"
          [] t = "Medical Diagnosis" -> "medical"
          [] OTHER -> "other"]

\* task_mapping.get(t): None for a key that is missing
task_mapping_get_without_default(t) ==
    IF t \in DOMAIN task_mapping THEN task_mapping[t] ELSE None

\* task_mapping.get(t, "other")
task_mapping_get(t) == IF t \in DOMAIN task_mapping THEN task_mapping[t] ELSE "other"

\* a dispatcher without the OCR branch: the mapping's entry is used as it is
dispatch_without_ocr_branch(t, choice) ==
    [endpoint |-> task_mapping_get(t), model_used |-> "pytesseract"]

\* handle_task's choice of endpoint and model name; `choice` is what
\* random.choice(["ocr", "simocr"]) draws.
dispatch(t, choice) ==
    IF t = "OCR"
    THEN [endpoint |-> choice,
          model_used |-> IF choice = "simocr" THEN "simocr" ELSE "pytesseract"]
    ELSE [endpoint |-> task_mapping_get(t), model_used |-> "pytesseract"]

\* handle_task from the answer `a` of its client.post on: (result, model name).
handle_response(a, model) ==
    IF a.fault # "none"
    THEN [result |-> "Task handling failed due to an error", model |-> "error"]
    ELSE IF a.status = 200
    THEN CASE a.body = "result" -> [result |-> a.text, model |-> model]
           [] a.body = "no_field" -> [result |-> "Task completed successfully", model |-> model]
           \* response.json() raises, caught by except Exception
           [] a.body = "undecodable" ->
                  [result |-> "Task handling failed due to an error", model |-> "error"]
    ELSE [result |-> "Task handling failed with status " \o ToString(a.status),
          model |-> model]

-----------------------------------------------------------------------------
(* Task handlers: the routes of tasks.py under /task *)

\* The class index medical_task reports when the model ran (torch.argmax).
ClassIndex == "<class index>"

\* Exception classes the libraries behind the handlers raise (PIL, pytesseract,
\* paddleocr, transformers, torch): all of them derive from Exception.
LibraryFaults == {"OSError", "RuntimeError"}

\* The text an OCR engine reads off the image of the tests.
OcrText == "STOP"

\* The routes of tasks.py.
Endpoints == {"ocr", "simocr", "caption", "vqa", "medical", "other"}

\* The longest time between a handler's two readings of time.time(), in units
\* of 0.00005 s.
MaxElapsed == 3

\* A call of a handler with what it meets:
\*   image_exists  os.path.exists(image_path)
\*   primary       pytesseract over the five psm modes: "text", "blank" (every
\*                 mode read blank text or raised), or the fault of Image.open
\*   secondary     PaddleOCR: "text", "no result" (None or empty), "no valid
\*                 item" (nothing passes the validation), or its fault
\*   library       transformers/torch: "ok", "forward fails" (the model call
\*                 raises), or the fault of from_pretrained / the preprocessing
\*   post          the POST to /metrics/record: "ok" or the class it raises
\*   elapsed       time.time() - start_time (the clock does not run backwards)
\*   tie_up        the side round() takes when elapsed is halfway
Calls ==
    [endpoint : Endpoints, image_exists : BOOLEAN,
     primary : {"text", "blank"} \cup LibraryFaults,
     secondary : {"text", "no result", "no valid item"} \cup LibraryFaults,
     library : {"ok", "forward fails"} \cup LibraryFaults,
     post : {"ok", "ConnectError"},
     elapsed : 0..MaxElapsed, tie_up : BOOLEAN]

\* round(latency, 4) on a latency counted in units of 0.00005 s.
round_4(t, tie_up) == IF t % 2 = 0 THEN t ELSE IF tie_up THEN t + 1 ELSE t - 1

\* The dict a handler returns, answered by FastAPI with status 200; `engines`
\* are the OCR engines the call entered, in order.
JSONReply(res, lat, name, engines) ==
    [status |-> 200, fields |-> {"result", "latency", "model_name"},
     result |-> res, latency |-> lat, model_name |-> name, engines |-> engines]

\* An exception that leaves the route function: FastAPI answers an
\* HTTPException with its status code, anything else with 500.
ErrorReply(exc, engines) ==
    [status |-> IF exc = "HTTPException" THEN 404 ELSE 500, fields |-> {"detail"},
     result |-> None, latency |-> 0, model_name |-> None, engines |-> engines]

\* The POST to /metrics/record inside its own try / except Exception: pass.
after_metrics_post(c, reply) ==
    IF c.post = "ok" \/ IsA(c.post, "Exception")
    THEN reply
    ELSE ErrorReply(c.post, reply.engines)

\* ocr_task without its outer try: a fault of PaddleOCR leaves the handler.
ocr_task_without_outer_try(c) ==
    LET latency == round_4(c.elapsed, c.tie_up)
        paddle ==
            IF c.secondary \in LibraryFaults
            THEN ErrorReply("UnboundLocalError", <<"pytesseract", "PaddleOCR">>)
            ELSE after_metrics_post(c,
                     JSONReply(IF c.secondary = "text" THEN OcrText
                               ELSE "No text found in image",
                               latency, "PaddleOCR", <<"pytesseract", "PaddleOCR">>))
    IN  IF ~c.image_exists
        THEN JSONReply("Image file not found", 0, "pytesseract", <<>>)
        ELSE IF c.primary = "text"
             THEN after_metrics_post(c,
                      JSONReply(OcrText, latency, "pytesseract", <<"pytesseract">>))
             ELSE paddle

\* ocr_task calling PaddleOCR whatever pytesseract read.
ocr_task_always_paddle(c) ==
    LET latency == round_4(c.elapsed, c.tie_up)
    IN  IF ~c.image_exists
        THEN JSONReply("Image file not found", 0, "pytesseract", <<>>)
        ELSE IF c.secondary \in LibraryFaults
             THEN JSONReply("No text detected in image", latency, "pytesseract",
                            <<"pytesseract", "PaddleOCR">>)
             ELSE JSONReply(IF c.secondary = "text" THEN OcrText
                            ELSE "No text found in image",
                            latency, "PaddleOCR", <<"pytesseract", "PaddleOCR">>)

\* POST /task/ocr.
ocr_task(c) ==
    LET latency == round_4(c.elapsed, c.tie_up)
        \* lines 126-132: the outer except
        outer_except(exc, engines) ==
            IF IsA(exc, "Exception")
            THEN JSONReply("No text detected in image", latency, "pytesseract", engines)
            ELSE ErrorReply(exc, engines)
        \* lines 80-124: PaddleOCR; its except clause raises again, and the
        \* message it formats reads pytesseract_error, which no longer is bound
        paddle ==
            IF c.secondary \in LibraryFaults
            THEN IF IsA(c.secondary, "Exception")
                 THEN outer_except("UnboundLocalError", <<"pytesseract", "PaddleOCR">>)
                 ELSE outer_except(c.secondary, <<"pytesseract", "PaddleOCR">>)
            ELSE after_metrics_post(c,
                     JSONReply(IF c.secondary = "text" THEN OcrText
                               ELSE "No text found in image",
                               latency, "PaddleOCR", <<"pytesseract", "PaddleOCR">>))
    IN  IF ~c.image_exists
        THEN JSONReply("Image file not found", 0, "pytesseract", <<>>)
        ELSE IF c.primary = "text"
             THEN after_metrics_post(c,
                      JSONReply(OcrText, latency, "pytesseract", <<"pytesseract">>))
             ELSE IF c.primary \in LibraryFaults /\ ~IsA(c.primary, "Exception")
                  THEN outer_except(c.primary, <<"pytesseract">>)
                  ELSE paddle

\* POST /task/simocr.
simocr_task(c) ==
    LET latency == round_4(c.elapsed, c.tie_up)
        raised == IF ~c.image_exists THEN "HTTPException"
                  ELSE IF c.secondary \in LibraryFaults THEN c.secondary
                  ELSE "none"
        engines == IF c.image_exists THEN <<"PaddleOCR">> ELSE <<>>
    IN  IF raised = "none"
        THEN JSONReply(IF c.secondary = "text" THEN OcrText
                       ELSE "No text found in image",
                       latency, "PaddleOCR (Simple)", engines)
        ELSE IF IsA(raised, "Exception")
             THEN JSONReply("No text detected in image", latency,
                            "PaddleOCR (Simple)", engines)
             ELSE ErrorReply(raised, engines)

\* What the body of caption_task, vqa_task or medical_task raises outside the
\* model call: from_pretrained, then Image.open, then the preprocessing.
body_fault(c) ==
    IF c.library \in LibraryFaults THEN c.library
    ELSE IF ~c.image_exists THEN "FileNotFoundError"
    ELSE "none"

\* POST /task/caption.
caption_task(c) ==
    LET latency == round_4(c.elapsed, c.tie_up)
        raised == IF body_fault(c) # "none" THEN body_fault(c)
                  ELSE IF c.library = "forward fails" THEN "RuntimeError"
                  ELSE "none"
    IN  IF raised = "none"
        THEN JSONReply("a dog on a beach", latency, "BLIP-2", <<>>)
        ELSE IF IsA(raised, "Exception")
             THEN JSONReply("Unable to generate image caption", latency, "BLIP-2", <<>>)
             ELSE ErrorReply(raised, <<>>)

\* POST /task/vqa.
vqa_task(c) ==
    LET latency == round_4(c.elapsed, c.tie_up)
        raised == IF body_fault(c) # "none" THEN body_fault(c)
                  ELSE IF c.library = "forward fails" THEN "RuntimeError"
                  ELSE "none"
    IN  IF raised = "none"
        THEN JSONReply("a dog", latency, "BLIP-2", <<>>)
        ELSE IF IsA(raised, "Exception")
             THEN JSONReply("Unable to answer visual question", latency, "BLIP-2", <<>>)
             ELSE ErrorReply(raised, <<>>)

\* POST /task/medical: the model call has a try of its own.
medical_task(c) ==
    LET latency == round_4(c.elapsed, c.tie_up)
        raised == body_fault(c)
        diagnosis == IF c.library = "forward fails" /\ IsA("RuntimeError", "Exception")
                     THEN "Unable to generate medical diagnosis"
                     ELSE ClassIndex
    IN  IF raised = "none"
        THEN JSONReply(diagnosis, latency, "ResNet-50", <<>>)
        ELSE IF IsA(raised, "Exception")
             THEN JSONReply("Unable to perform medical analysis", latency,
                            "ResNet-50", <<>>)
             ELSE ErrorReply(raised, <<>>)

\* POST /task/other: nothing in its try raises.
other_task(c) ==
    JSONReply("Task not supported", round_4(c.elapsed, c.tie_up), "None", <<>>)

\* The route function behind POST /task/<c.endpoint>.
task_handler(c) ==
    CASE c.endpoint = "ocr" -> ocr_task(c)
      [] c.endpoint = "simocr" -> simocr_task(c)
      [] c.endpoint = "caption" -> caption_task(c)
      [] c.endpoint = "vqa" -> vqa_task(c)
      [] c.endpoint = "medical" -> medical_task(c)
      [] c.endpoint = "other" -> other_task(c)

\* The "result" and "model_name" of every answer of each handler.
reply_table ==
    [e \in Endpoints |->
        {[result |-> task_handler(c).result, model_name |-> task_handler(c).model_name] :
            c \in {x \in Calls : x.endpoint = e}}]

\* What the handler behind /task/<e> returns: its "result" and "model_name".
handler_replies(e) == IF e \in Endpoints THEN reply_table[e] ELSE {}

-----------------------------------------------------------------------------
(* The log store: logs.json as analyze_image and get_result use it *)

\* No log entry (none built yet, none found).
NoEntry ==
    [id |-> None, timestamp |-> 0, task |-> None, model |-> None, latency |-> 0,
     result |-> None]

\* str(uuid.uuid4()) as request r draws it: a value no other call returns.
uuid4(r) == "uuid-" \o ToString(r)

\* round(x, 2) of a time in seconds, on milliseconds: the nearest multiple
\* of ten (the times of the model never lie halfway).
round_2(ms) == ((ms + 5) \div 10) * 10

\* analyze_image's read of logs.json: [] when the file is missing, and []
\* when json.load raises JSONDecodeError (an empty or corrupt file).
read_logs(f) == IF f.state = "list" THEN f.logs ELSE <<>>

\* next((entry for entry in logs if entry.get("id") == result_id), None)
RECURSIVE first_with_id(_, _, _)
first_with_id(logs, result_id, i) ==
    IF i > Len(logs) THEN 0
    ELSE IF logs[i].id = result_id THEN i
    ELSE first_with_id(logs, result_id, i + 1)

\* get_result on the file f: the entry, an HTTPException 404, or the
\* JSONDecodeError of json.load, which nothing catches (the server answers 500).
get_result(f, result_id) ==
    IF f.state = "missing"
    THEN [result_id |-> result_id, raised |-> "HTTPException", status |-> 404,
          entry |-> NoEntry]
    ELSE IF f.state = "corrupt"
    THEN [result_id |-> result_id, raised |-> "JSONDecodeError", status |-> 500,
          entry |-> NoEntry]
    ELSE LET i == first_with_id(f.logs, result_id, 1) IN
         IF i = 0
         THEN [result_id |-> result_id, raised |-> "HTTPException", status |-> 404,
               entry |-> NoEntry]
         ELSE [result_id |-> result_id, raised |-> "none", status |-> 200,
               entry |-> f.logs[i]]

-----------------------------------------------------------------------------
(* The two leaderboards: leaderboard.py over logs.json, metrics.py in memory *)

\* The members of a set of positions, in ascending order.
ascending(S) ==
    [k \in 1..Cardinality(S) |-> CHOOSE i \in S : Cardinality({j \in S : j < i}) = k - 1]

\* sorted(seq, key=...) and list.sort(key=...), keys[i] being the key of
\* seq[i]: ascending and stable.
sorted_by(seq, keys) ==
    LET n == Len(seq)
        rank(i) ==
            Cardinality({j \in 1..n : \/ keys[j] < keys[i]
                                      \/ keys[j] = keys[i] /\ j < i}) + 1
    IN  [k \in 1..n |-> seq[CHOOSE i \in 1..n : rank(i) = k]]

\* The keys of a dict after keys[1], keys[2], ... were inserted in turn: a
\* dict keeps its keys in the order of their first insertion.
dict_keys(keys) ==
    LET firsts == {i \in 1..Len(keys) : \A j \in 1..(i - 1) : keys[j] # keys[i]}
        order == ascending(firsts)
    IN  [k \in 1..Len(order) |-> keys[order[k]]]

\* [x.latency for x in seq]
latencies_of(seq) == [i \in 1..Len(seq) |-> seq[i].latency]

\* seq[:n].
slice_to(seq, n) ==
    LET stop == IF n >= 0
                THEN (IF n < Len(seq) THEN n ELSE Len(seq))
                ELSE (IF Len(seq) + n > 0 THEN Len(seq) + n ELSE 0)
    IN  SubSeq(seq, 1, stop)

\* model_stats[model] after the loop over logs: the latencies of the model's
\* entries summed, and their number (latencies in hundredths of a second).
RECURSIVE model_stats(_, _, _)
model_stats(logs, model, i) ==
    IF i > Len(logs) THEN [model |-> model, total_latency |-> 0, runs |-> 0]
    ELSE LET rest == model_stats(logs, model, i + 1)
         IN  IF logs[i].model = model
             THEN [rest EXCEPT !.total_latency = @ + logs[i].latency, !.runs = @ + 1]
             ELSE rest

\* round(total_latency / runs, 2), in hundredths; tie_up is the side the
\* quotient's float falls on when the exact average lies halfway.
round_average(total_latency, runs, tie_up) ==
    LET q == total_latency \div runs
        twice == 2 * (total_latency % runs)
    IN  IF twice < runs THEN q
        ELSE IF twice > runs THEN q + 1
        ELSE IF tie_up THEN q + 1 ELSE q

\* The rows get_leaderboard builds from the entries it considers, before it
\* sorts them.
leaderboard_rows(logs, ups) ==
    LET models == dict_keys([i \in 1..Len(logs) |-> logs[i].model])
    IN  [k \in 1..Len(models) |->
            LET stats == model_stats(logs, models[k], 1)
            IN  [model |-> models[k],
                 average_latency |->
                     round_average(stats.total_latency, stats.runs, ups[models[k]]),
                 runs |-> stats.runs]]

\* if task: ... keeps the entries of that task; None and "" are falsy.
filter_by_task(logs, task_param) ==
    IF task_param \in {None, ""}
    THEN logs
    ELSE SelectSeq(logs, LAMBDA l : l.task = task_param)

\* get_leaderboard that returns its rows as it built them.
get_leaderboard_without_sort(file, task_param, ups) ==
    IF file.state # "list"
    THEN [status |-> 500, rows |-> <<>>]
    ELSE [status |-> 200,
          rows |-> leaderboard_rows(filter_by_task(file.logs, task_param), ups)]

\* GET /leaderboard: a missing or undecodable logs.json is answered 500.
get_leaderboard(file, task_param, ups) ==
    IF file.state # "list"
    THEN [status |-> 500, rows |-> <<>>]
    ELSE [status |-> 200,
          rows |-> LET rows == leaderboard_rows(filter_by_task(file.logs, task_param), ups)
                   IN  sorted_by(rows, [k \in 1..Len(rows) |-> rows[k].average_latency])]

\* No metric (a model not yet in model_fastest).
NoMetric == [model_name |-> None, latency |-> 0, task |-> None]

\* POST /metrics/record.
record_metric(metrics, model_name, latency, task_param) ==
    Append(metrics, [model_name |-> model_name, latency |-> latency, task |-> task_param])

\* model_fastest[model_name] after the loop over sorted_metrics from position i
\* on, `fastest` being its value before (NoMetric: no such key).
RECURSIVE model_fastest(_, _, _, _)
model_fastest(sorted_metrics, model_name, i, fastest) ==
    IF i > Len(sorted_metrics) THEN fastest
    ELSE LET metric == sorted_metrics[i]
         IN  IF /\ metric.model_name = model_name
                /\ (fastest = NoMetric \/ metric.latency < fastest.latency)
             THEN model_fastest(sorted_metrics, model_name, i + 1, metric)
             ELSE model_fastest(sorted_metrics, model_name, i + 1, fastest)

\* The metrics leaderboard that does not cut its rows at limit.
metrics_get_leaderboard_without_limit(metrics, limit) ==
    LET sorted_metrics == sorted_by(metrics, latencies_of(metrics))
        names == dict_keys([i \in 1..Len(sorted_metrics) |-> sorted_metrics[i].model_name])
        values == [k \in 1..Len(names) |->
                      model_fastest(sorted_metrics, names[k], 1, NoMetric)]
    IN  [status |-> 200, limit |-> limit,
         rows |-> sorted_by(values, latencies_of(values))]

\* GET /metrics/leaderboard.
metrics_get_leaderboard(metrics, limit) ==
    LET sorted_metrics == sorted_by(metrics, latencies_of(metrics))
        names == dict_keys([i \in 1..Len(sorted_metrics) |-> sorted_metrics[i].model_name])
        values == [k \in 1..Len(names) |->
                      model_fastest(sorted_metrics, names[k], 1, NoMetric)]
        fastest_models == slice_to(sorted_by(values, latencies_of(values)), limit)
    IN  [status |-> 200, limit |-> limit, rows |-> fastest_models]

-----------------------------------------------------------------------------
(* Spec: one call of classify_task_with_qwen *)

ApiUrls == {DefaultApiUrl, "https://api.cerebras.com/completions"}

CandidateUrls == ApiUrls \cup {fallback_urls[k] : k \in 1..Len(fallback_urls)}

Questions ==
    {"read the text on this sign", "what color is the car", "Describe the picture",
     "is this a tumor", "hello"}

ImageContexts == {None, "a dog on a beach"}

\* What a remote classifier may say in the text of a 200 answer, and the local
\* model in its decoded output.
ResponseTexts ==
    {"OCR", "Image Captioning.", "The task is Visual QA!",
     "object detection or style transfer", "Medical Diagnosis", "I cannot tell", "",
     "Error: unsure, maybe OCR", "Fallback response: Visual QA"}

\* What a HEAD probe meets: an exception (connection fault, timeout) or a status.
HeadAnswers ==
    {[raised |-> TRUE, status |-> 0]}
    \cup {[raised |-> FALSE, status |-> s] : s \in {200, 499, 500}}

\* What a POST to a remote classifier meets.
PostAnswers ==
    {[fault |-> f, status |-> 0, body |-> "", text |-> ""] : f \in {"ConnectionError", "Timeout"}}
    \cup {[fault |-> "none", status |-> s, body |-> "", text |-> ""] : s \in {401, 500}}
    \cup {[fault |-> "none", status |-> 200, body |-> "text", text |-> t] : t \in ResponseTexts}
    \cup {[fault |-> "none", status |-> 200, body |-> b, text |-> ""] :
             b \in {"no_field", "not_text", "undecodable", "not_object"}}

\* What call_qwen_model_local meets: the model cannot be loaded or run, or it
\* decodes to a text.
LocalAnswers ==
    {[fault |-> "OSError", status |-> 0, body |-> "", text |-> ""]}
    \cup {[fault |-> "none", status |-> 0, body |-> "text", text |-> t] : t \in ResponseTexts}

NotCalled == [fault |-> "not called", status |-> 0, body |-> "", text |-> ""]

\* The Cerebras tier ended without a completion: no candidate was reachable.
Unreachable == [fault |-> "unreachable", status |-> 0, body |-> "", text |-> ""]

NoCalls == [cerebras |-> NotCalled, primary |-> NotCalled, local |-> NotCalled]

NoProbes == [u \in CandidateUrls |-> 0]

CascadeIdle ==
    /\ use_cerebras = FALSE
    /\ api_url = DefaultApiUrl
    /\ question = ""
    /\ image_context = None
    /\ pc = "idle"
    /\ prober_state = "idle"
    /\ idx = 1
    /\ probe_log = <<>>
    /\ working_url = None
    /\ probe_count = NoProbes
    /\ attempted = <<>>
    /\ answer = NoCalls
    /\ result = None

DispatchIdle ==
    /\ task = None
    /\ h_pc = "idle"
    /\ endpoint = None
    /\ model_used = None
    /\ handled = None
    /\ ocr_endpoints = {}
    /\ dispatched = 0
    /\ h_response = None
    /\ choices = {}

\* How many analyze requests a behaviour holds.
MaxRequests == 2

Requests == 1..MaxRequests

\* The locals of a call of analyze_image that has not started; `before` is
\* not a local: it keeps the entries logs.json held when the request arrived.
NoLocals ==
    [worker |-> None, content_type |-> None, file_path |-> None,
     total_start_time |-> 0, task |-> None, endpoint |-> None,
     model_used |-> None,
     response |-> [fault |-> "not called", status |-> 0, body |-> "", text |-> "",
                   model_name |-> ""],
     result |-> None, total_latency |-> 0, log_entry |-> NoEntry, logs |-> <<>>,
     before |-> <<>>]

\* No response received.
NoResponse == [status |-> 0, body |-> NoEntry]

\* get_result not called.
NoLookup == [result_id |-> None, raised |-> "none", status |-> 0, entry |-> NoEntry]

AnalyzeIdle ==
    /\ logs_file = [state |-> "missing", logs |-> <<>>]
    /\ now = 0
    /\ a_pc = [r \in Requests |-> "idle"]
    /\ locals = [r \in Requests |-> NoLocals]
    /\ returned = [r \in Requests |-> NoResponse]
    /\ appends = [r \in Requests |-> 0]
    /\ looked_up = NoLookup

\* No handler called.
NoCall ==
    [endpoint |-> None, image_exists |-> FALSE, primary |-> "", secondary |-> "",
     library |-> "", post |-> "", elapsed |-> 0, tie_up |-> FALSE]

\* No handler answer yet.
NoReply ==
    [status |-> 0, fields |-> {}, result |-> None, latency |-> 0,
     model_name |-> None, engines |-> <<>>]

HandlersIdle ==
    /\ t_call = NoCall
    /\ t_reply = NoReply

\* No leaderboard answer yet.
NoBoard == [status |-> 0, rows |-> <<>>]

\* No metrics leaderboard answer yet.
NoMetricBoard == [status |-> 0, limit |-> 0, rows |-> <<>>]

BoardsIdle ==
    /\ board_logs = [state |-> "missing", logs |-> <<>>]
    /\ task_filter = None
    /\ log_board = NoBoard
    /\ model_metrics = <<>>
    /\ metric_board = NoMetricBoard

CascadeInit ==
    /\ use_cerebras \in BOOLEAN
    /\ api_url \in ApiUrls
    /\ question \in Questions
    /\ image_context \in ImageContexts
    /\ pc = "call"
    /\ prober_state = "idle"
    /\ idx = 1
    /\ probe_log = <<>>
    /\ working_url = None
    /\ probe_count = NoProbes
    /\ attempted = <<>>
    /\ answer = NoCalls
    /\ result = None

\* classify_task_with_qwen up to its first network call: the flag decides
\* whether the Cerebras tier is entered.
Call ==
    /\ pc = "call"
    /\ IF use_cerebras
       THEN pc' = "find_first" /\ attempted' = <<"cerebras">>
       ELSE pc' = "primary" /\ attempted' = attempted
    /\ UNCHANGED <<use_cerebras, api_url, question, image_context, prober_state, idx,
                   probe_log, working_url, probe_count, answer, result>>
    /\ UNCHANGED notCascade

\* One HEAD probe of _find_working_endpoint, in call_cerebras_qwen's run or in
\* generate's run.
Probe ==
    /\ pc \in {"find_first", "find_generate"}
    /\ prober_state \in {"idle", "running"}
    /\ \E probe \in HeadAnswers :
          LET step == _find_working_endpoint(urls_to_try, idx, probe) IN
          /\ probe_log' = Append(probe_log,
                 [url |-> urls_to_try[idx], raised |-> probe.raised, status |-> probe.status])
          /\ probe_count' = [probe_count EXCEPT ![urls_to_try[idx]] = @ + 1]
          /\ prober_state' = step.state
          /\ idx' = step.idx
          /\ working_url' = step.working_url
    /\ UNCHANGED <<use_cerebras, api_url, question, image_context, pc, attempted,
                   answer, result>>
    /\ UNCHANGED notCascade

\* The Cerebras tier is left with outcome r (classify_task_with_qwen lines
\* 46-52): a value is returned, an exception is caught and the primary tier
\* comes next.
LeaveCerebras(r, a) ==
    /\ answer' = [answer EXCEPT !.cerebras = a]
    /\ IF r.raised = "none" THEN pc' = "returned" /\ result' = r.value
       ELSE IF IsA(r.raised, "Exception") THEN pc' = "primary" /\ result' = result
       ELSE pc' = "raised" /\ result' = result
    /\ prober_state' = "idle"
    /\ idx' = 1
    /\ probe_log' = <<>>
    /\ working_url' = None
    /\ probe_count' = NoProbes
    /\ UNCHANGED <<use_cerebras, api_url, question, image_context, attempted>>
    /\ UNCHANGED notCascade

\* call_cerebras_qwen after its own prober run: no endpoint means the fallback
\* response, an endpoint means client.generate, which probes again.
FirstFindReturned ==
    /\ pc = "find_first"
    /\ prober_state = "returned"
    /\ IF working_url = None
       THEN LeaveCerebras(
                classify_task_with_cerebras_qwen(
                    call_cerebras_qwen(FALSE, Unreachable,
                                       classification_prompt(question, image_context))),
                Unreachable)
       ELSE /\ pc' = "find_generate"
            /\ prober_state' = "idle"
            /\ idx' = 1
            /\ probe_log' = <<>>
            /\ working_url' = None
            /\ UNCHANGED <<use_cerebras, api_url, question, image_context, probe_count,
                           attempted, answer, result>>
            /\ UNCHANGED notCascade

\* generate after its prober run: no endpoint is a failed result, which
\* call_cerebras_qwen answers with the fallback response; an endpoint is posted to.
GenerateFindReturned ==
    /\ pc = "find_generate"
    /\ prober_state = "returned"
    /\ IF working_url = None
       THEN LeaveCerebras(
                classify_task_with_cerebras_qwen(
                    call_cerebras_qwen(FALSE, Unreachable,
                                       classification_prompt(question, image_context))),
                Unreachable)
       ELSE /\ pc' = "post"
            /\ prober_state' = "idle"
            /\ idx' = 1
            /\ probe_log' = <<>>
            /\ UNCHANGED <<use_cerebras, api_url, question, image_context, working_url,
                           probe_count, attempted, answer, result>>
            /\ UNCHANGED notCascade

\* generate's session.post to the working endpoint and everything up to the
\* return of classify_task_with_cerebras_qwen.
Post ==
    /\ pc = "post"
    /\ \E a \in PostAnswers :
          LeaveCerebras(
              classify_task_with_cerebras_qwen(
                  call_cerebras_qwen(TRUE, a,
                                     classification_prompt(question, image_context))),
              a)

\* The primary remote: call_qwen_model_api and the inner try around it.
Primary ==
    /\ pc = "primary"
    /\ \E a \in PostAnswers :
          LET label == primary_tier(a) IN
          /\ answer' = [answer EXCEPT !.primary = a]
          /\ IF label # None THEN pc' = "returned" /\ result' = label
             ELSE pc' = "local" /\ result' = result
    /\ attempted' = Append(attempted, "primary")
    /\ UNCHANGED <<use_cerebras, api_url, question, image_context, prober_state, idx,
                   probe_log, working_url, probe_count>>
    /\ UNCHANGED notCascade

\* The local model: call_qwen_model_local and the outer try around it.
Local ==
    /\ pc = "local"
    /\ \E a \in LocalAnswers :
          LET r == local_tier(a) IN
          /\ answer' = [answer EXCEPT !.local = a]
          /\ IF r.raised = "none" THEN pc' = "returned" /\ result' = r.value
             ELSE pc' = "raised" /\ result' = result
    /\ attempted' = Append(attempted, "local")
    /\ UNCHANGED <<use_cerebras, api_url, question, image_context, prober_state, idx,
                   probe_log, working_url, probe_count>>
    /\ UNCHANGED notCascade

TextIdle ==
    /\ text = ""
    /\ parsed = None
    /\ parsedC = None
    /\ mocked = None

Init ==
    TextIdle /\ CascadeInit /\ DispatchIdle /\ AnalyzeIdle /\ HandlersIdle /\ BoardsIdle

Next ==
    \/ Call
    \/ Probe
    \/ FirstFindReturned
    \/ GenerateFindReturned
    \/ Post
    \/ Primary
    \/ Local

Spec == Init /\ [][Next]_vars

-----------------------------------------------------------------------------
(* SpecText: the pure text functions applied to bounded inputs *)

\* Pieces the input texts are built from: an input is one piece followed by
\* another, so a match may lie inside a piece or across the joint.
Fragments ==
    {"", " ", "OCR", "ocr.", "O.C.R", "Image Captioning", "Visual QA",
     "visual, qa!", "Image Classification", "Object Detection", "Style Transfer",
     "Medical Diagnosis", "Other", "read the text", "my patient", "What color",
     "how", "Where", "describe", "classify", "find", "art", "hello", "?"}

TextInputs == {a \o b : a \in Fragments, b \in Fragments}

TextInit ==
    /\ text \in TextInputs
    /\ parsed = None
    /\ parsedC = None
    /\ mocked = None
    /\ CascadeIdle
    /\ DispatchIdle
    /\ AnalyzeIdle
    /\ HandlersIdle
    /\ BoardsIdle

NormalizeQwen ==
    /\ parsed = None
    /\ parsed' = parse_task_from_response(text)
    /\ UNCHANGED <<text, parsedC, mocked>>
    /\ UNCHANGED notText

NormalizeCerebras ==
    /\ parsedC = None
    /\ parsedC' = cerebras_parse_task_from_response(text)
    /\ UNCHANGED <<text, parsed, mocked>>
    /\ UNCHANGED notText

KeywordClassify ==
    /\ mocked = None
    /\ mocked' = mock_classify_task(text)
    /\ UNCHANGED <<text, parsed, parsedC>>
    /\ UNCHANGED notText

TextNext == NormalizeQwen \/ NormalizeCerebras \/ KeywordClassify

SpecText == TextInit /\ [][TextNext]_vars

-----------------------------------------------------------------------------
(* SpecDispatch: calls of handle_task, one after the other *)

\* How many calls of handle_task a behaviour holds.
MaxDispatches == 3

\* The task strings handle_task is called with: the labels, and a text the
\* cascade can return that is no label.
Tasks == TaskLabel \cup {"Fallback response: Visual QA"}

\* What the POST to http://localhost:8000/task/<e> meets: a transport fault,
\* a status other than 200, the reply of the handler behind the route, or a
\* 200 whose body is no JSON or has no "result".
HandlerAnswers(e) ==
    {[fault |-> f, status |-> 0, body |-> "", text |-> "", model_name |-> ""] :
        f \in {"ConnectError", "ReadTimeout"}}
    \cup {[fault |-> "none", status |-> s, body |-> "", text |-> "", model_name |-> ""] :
             s \in {404, 500}}
    \cup {[fault |-> "none", status |-> 200, body |-> "result", text |-> r.result,
           model_name |-> r.model_name] : r \in handler_replies(e)}
    \cup {[fault |-> "none", status |-> 200, body |-> b, text |-> "", model_name |-> ""] :
             b \in {"no_field", "undecodable"}}

DispatchInit ==
    /\ TextIdle
    /\ CascadeIdle
    /\ AnalyzeIdle
    /\ HandlersIdle
    /\ BoardsIdle
    /\ task \in Tasks
    /\ h_pc = "called"
    /\ endpoint = None
    /\ model_used = None
    /\ handled = None
    /\ ocr_endpoints = {}
    /\ dispatched = 1
    /\ h_response = None
    /\ choices = {}

\* handle_task up to its client.post: the endpoint and the model name.
ChooseEndpoint ==
    /\ h_pc = "called"
    /\ \E choice \in {"ocr", "simocr"} :
          LET d == dispatch(task, choice) IN
          /\ endpoint' = d.endpoint
          /\ model_used' = d.model_used
          /\ ocr_endpoints' = IF task = "OCR" THEN ocr_endpoints \cup {d.endpoint}
                              ELSE ocr_endpoints
          /\ choices' = choices \cup {<<task, d.endpoint>>}
    /\ h_pc' = "posted"
    /\ UNCHANGED <<task, handled, dispatched, h_response>>
    /\ UNCHANGED notDispatch

\* The handler's answer arrives (or the POST fails) and handle_task returns.
HandlerAnswered ==
    /\ h_pc = "posted"
    /\ \E a \in HandlerAnswers(endpoint) :
          /\ h_response' = a
          /\ handled' = handle_response(a, model_used)
    /\ h_pc' = "done"
    /\ UNCHANGED <<task, endpoint, model_used, ocr_endpoints, dispatched, choices>>
    /\ UNCHANGED notDispatch

\* The next call of handle_task.
NextDispatch ==
    /\ h_pc = "done"
    /\ dispatched < MaxDispatches
    /\ task' \in Tasks
    /\ h_pc' = "called"
    /\ endpoint' = None
    /\ model_used' = None
    /\ handled' = None
    /\ h_response' = None
    /\ dispatched' = dispatched + 1
    /\ UNCHANGED <<ocr_endpoints, choices>>
    /\ UNCHANGED notDispatch

DispatchNext == ChooseEndpoint \/ HandlerAnswered \/ NextDispatch

SpecDispatch == DispatchInit /\ [][DispatchNext]_vars

-----------------------------------------------------------------------------
(* SpecAnalyze: analyze requests and lookups against one logs.json *)

\* The last reading of the clock, in milliseconds.
MaxTime == 4

\* The server processes that share logs.json. Each runs one event loop, so
\* code between two awaits of a request runs without another request of the
\* same process in between; another process may act at any point.
Workers == {"worker 1", "worker 2"}

\* An entry a former run left in the file.
OldEntry ==
    [id |-> "test-123", timestamp |-> 0, task |-> "OCR", model |-> "pytesseract",
     latency |-> 50, result |-> "Test document text"]

\* logs.json when the service starts.
InitialFiles ==
    {[state |-> "missing", logs |-> <<>>],
     [state |-> "corrupt", logs |-> <<>>],
     [state |-> "list", logs |-> <<>>],
     [state |-> "list", logs |-> <<OldEntry>>]}

ContentTypes == {"image/png", "text/plain"}

\* What classify_task_with_qwen returns to analyze_image.
AnalyzeTasks == {"Medical Diagnosis", "Other"}

\* The ids get_result is asked for.
LookupIds == {uuid4(r) : r \in Requests} \cup {"test-123", "invalid-id"}

AnalyzeInit ==
    /\ TextIdle
    /\ CascadeIdle
    /\ DispatchIdle
    /\ HandlersIdle
    /\ BoardsIdle
    /\ logs_file \in InitialFiles
    /\ now = 0
    /\ a_pc = [r \in Requests |-> "idle"]
    /\ locals = [r \in Requests |-> NoLocals]
    /\ returned = [r \in Requests |-> NoResponse]
    /\ appends = [r \in Requests |-> 0]
    /\ looked_up = NoLookup

\* No other request of worker w stands between reading logs.json and
\* returning: that stretch of analyze_image has no await.
EventLoopFree(w, r) ==
    \A r2 \in Requests \ {r} :
        locals[r2].worker = w => a_pc[r2] \notin {"read", "opened"}

\* A check of the content type that lets every upload through.
allowed_any_content_type(content_type) == TRUE

\* image.content_type in ["image/jpeg", "image/png"]
allowed_content_type(content_type) == content_type \in {"image/jpeg", "image/png"}

\* Where analyze_image saves the upload of request r.
upload_path(r) == "uploads/image_" \o ToString(r)

\* analyze_image up to the await in handle_task: the content type check, the
\* upload and caption (which may raise), the classification, and handle_task's
\* choice of endpoint.
Receive ==
    \E r \in Requests, w \in Workers, content_type \in ContentTypes :
        /\ a_pc[r] = "idle"
        \* requests are numbered in the order they arrive, workers in the order
        \* they first serve one
        /\ r > 1 => a_pc[r - 1] # "idle"
        /\ r = 1 => w = "worker 1"
        /\ EventLoopFree(w, r)
        /\ IF ~allowed_content_type(content_type)
           THEN /\ a_pc' = [a_pc EXCEPT ![r] = "returned"]
                /\ locals' = [locals EXCEPT ![r].worker = w,
                                            ![r].content_type = content_type,
                                            ![r].total_start_time = now,
                                            ![r].before = read_logs(logs_file)]
                /\ returned' = [returned EXCEPT ![r].status = 400]
           ELSE \/ \* the upload is saved, then Image.open or get_image_caption raises
                   /\ a_pc' = [a_pc EXCEPT ![r] = "failed"]
                   /\ locals' = [locals EXCEPT ![r].worker = w,
                                               ![r].content_type = content_type,
                                               ![r].file_path = upload_path(r),
                                               ![r].total_start_time = now,
                                               ![r].before = read_logs(logs_file)]
                   /\ returned' = [returned EXCEPT ![r].status = 500]
                \/ \E t \in AnalyzeTasks, choice \in {"ocr", "simocr"} :
                      LET d == dispatch(t, choice) IN
                      /\ a_pc' = [a_pc EXCEPT ![r] = "posted"]
                      /\ locals' = [locals EXCEPT ![r].worker = w,
                                                  ![r].content_type = content_type,
                                                  ![r].file_path = upload_path(r),
                                                  ![r].total_start_time = now,
                                                  ![r].before = read_logs(logs_file),
                                                  ![r].task = t,
                                                  ![r].endpoint = d.endpoint,
                                                  ![r].model_used = d.model_used]
                      /\ UNCHANGED returned
        /\ looked_up' = NoLookup
        /\ UNCHANGED <<logs_file, now, appends>>
        /\ UNCHANGED notAnalyze

\* Time passes while a request awaits its handler.
Tick ==
    /\ \E r \in Requests : a_pc[r] = "posted"
    /\ now + 4 <= MaxTime
    /\ now' = now + 4
    /\ looked_up' = NoLookup
    /\ UNCHANGED <<logs_file, a_pc, locals, returned, appends>>
    /\ UNCHANGED notAnalyze

\* The caller goes away while the request awaits its handler: the await
\* raises CancelledError, which no except clause of the request catches.
Abort ==
    \E r \in Requests :
        /\ a_pc[r] = "posted"
        /\ EventLoopFree(locals[r].worker, r)
        /\ a_pc' = [a_pc EXCEPT ![r] = "aborted"]
        /\ looked_up' = NoLookup
        /\ UNCHANGED <<logs_file, now, locals, returned, appends>>
        /\ UNCHANGED notAnalyze

\* The POST is answered (or fails), handle_task returns, and analyze_image
\* runs on to its read of logs.json: the latency, the log entry, the read.
HandlerReturned ==
    \E r \in Requests :
        /\ a_pc[r] = "posted"
        /\ EventLoopFree(locals[r].worker, r)
        /\ \E a \in HandlerAnswers(locals[r].endpoint) :
              LET h == handle_response(a, locals[r].model_used)
                  total_latency == now - locals[r].total_start_time
                  log_entry == [id |-> uuid4(r), timestamp |-> now,
                                task |-> locals[r].task, model |-> h.model,
                                latency |-> round_2(total_latency),
                                result |-> h.result]
              IN  locals' = [locals EXCEPT ![r].response = a,
                                          ![r].result = h.result,
                                          ![r].model_used = h.model,
                                          ![r].total_latency = total_latency,
                                          ![r].log_entry = log_entry,
                                          ![r].logs = read_logs(logs_file)]
        /\ a_pc' = [a_pc EXCEPT ![r] = "read"]
        /\ looked_up' = NoLookup
        /\ UNCHANGED <<logs_file, now, returned, appends>>
        /\ UNCHANGED notAnalyze

\* open(logs_file, 'w'): the file is truncated, or the open raises OSError
\* and the request ends with it.
OpenForWrite ==
    \E r \in Requests :
        /\ a_pc[r] = "read"
        /\ \/ /\ logs_file' = [state |-> "corrupt", logs |-> <<>>]
              /\ a_pc' = [a_pc EXCEPT ![r] = "opened"]
              /\ UNCHANGED returned
           \/ /\ a_pc' = [a_pc EXCEPT ![r] = "failed"]
              /\ returned' = [returned EXCEPT ![r].status = 500]
              /\ UNCHANGED logs_file
        /\ looked_up' = NoLookup
        /\ UNCHANGED <<now, locals, appends>>
        /\ UNCHANGED notAnalyze

\* a request that returns its response and leaves the log as it is
ReturnWithoutDump ==
    \E r \in Requests :
        /\ a_pc[r] = "opened"
        /\ a_pc' = [a_pc EXCEPT ![r] = "returned"]
        /\ returned' =
              [returned EXCEPT ![r] =
                  [status |-> 200,
                   body |-> [locals[r].log_entry EXCEPT
                                !.latency = locals[r].total_latency]]]
        /\ looked_up' = NoLookup
        /\ UNCHANGED <<logs_file, now, locals, appends>>
        /\ UNCHANGED notAnalyze

\* json.dump(logs, f) and the return of the response, or an OSError
\* while writing, which leaves the truncated file behind.
Dump ==
    \E r \in Requests :
        /\ a_pc[r] = "opened"
        /\ \/ /\ logs_file' = [state |-> "list",
                                logs |-> Append(locals[r].logs, locals[r].log_entry)]
              /\ appends' = [appends EXCEPT ![r] = @ + 1]
              /\ a_pc' = [a_pc EXCEPT ![r] = "returned"]
              /\ returned' =
                    [returned EXCEPT ![r] =
                        [status |-> 200,
                         body |-> [locals[r].log_entry EXCEPT
                                      !.latency = locals[r].total_latency]]]
           \/ /\ a_pc' = [a_pc EXCEPT ![r] = "failed"]
              /\ returned' = [returned EXCEPT ![r].status = 500]
              /\ UNCHANGED <<logs_file, appends>>
        /\ looked_up' = NoLookup
        /\ UNCHANGED <<now, locals>>
        /\ UNCHANGED notAnalyze

\* A call of get_result, served by a worker whose event loop is free.
GetResult ==
    \E result_id \in LookupIds, w \in Workers :
        /\ EventLoopFree(w, 0)
        /\ looked_up' = get_result(logs_file, result_id)
        /\ UNCHANGED <<logs_file, now, a_pc, locals, returned, appends>>
        /\ UNCHANGED notAnalyze

AnalyzeNext ==
    \/ Receive
    \/ Tick
    \/ Abort
    \/ HandlerReturned
    \/ OpenForWrite
    \/ Dump
    \/ GetResult

SpecAnalyze == AnalyzeInit /\ [][AnalyzeNext]_vars

-----------------------------------------------------------------------------
(* SpecHandlers: one call of a /task/<endpoint> handler *)

HandlersInit ==
    /\ TextIdle
    /\ CascadeIdle
    /\ DispatchIdle
    /\ AnalyzeIdle
    /\ BoardsIdle
    /\ t_call \in Calls
    /\ t_reply = NoReply

\* The route function runs from its first line to its return.
HandlerReturns ==
    /\ t_reply = NoReply
    /\ t_reply' = task_handler(t_call)
    /\ UNCHANGED t_call
    /\ UNCHANGED notHandlers

HandlersNext == HandlerReturns

SpecHandlers == HandlersInit /\ [][HandlersNext]_vars

-----------------------------------------------------------------------------
(* SpecLeaderboard: GET /leaderboard over one logs.json *)

\* The longest logs.json the leaderboard reads.
MaxLogs == 4

\* The latencies of the log entries, in hundredths of a second.
LogLatencies == {1, 2}

\* The models handle_task writes to the log for its two OCR endpoints.
BoardModels == {"pytesseract", "simocr"}

\* The fields of a log entry that the leaderboard reads.
BoardEntries ==
    [task : {"OCR", "Medical Diagnosis"}, model : BoardModels, latency : LogLatencies]

RECURSIVE SeqsUpTo(_, _)
SeqsUpTo(S, n) ==
    IF n = 0 THEN {<<>>}
    ELSE LET shorter == SeqsUpTo(S, n - 1)
         IN  shorter \cup {Append(q, x) : q \in {z \in shorter : Len(z) = n - 1}, x \in S}

BoardFiles ==
    {[state |-> "missing", logs |-> <<>>], [state |-> "corrupt", logs |-> <<>>]}
    \cup {[state |-> "list", logs |-> l] : l \in SeqsUpTo(BoardEntries, MaxLogs)}

\* The query parameter task: absent, empty, or a label.
TaskFilters == {None, "", "OCR", "Medical Diagnosis"}

LeaderboardInit ==
    /\ TextIdle
    /\ CascadeIdle
    /\ DispatchIdle
    /\ AnalyzeIdle
    /\ HandlersIdle
    /\ board_logs \in BoardFiles
    /\ task_filter \in TaskFilters
    /\ log_board = NoBoard
    /\ model_metrics = <<>>
    /\ metric_board = NoMetricBoard

\* One GET /leaderboard?task=<task_filter>.
GetLeaderboard ==
    /\ log_board = NoBoard
    /\ \E ups \in [BoardModels -> BOOLEAN] :
          log_board' = get_leaderboard(board_logs, task_filter, ups)
    /\ UNCHANGED <<board_logs, task_filter, model_metrics, metric_board>>
    /\ UNCHANGED notBoards

LeaderboardNext == GetLeaderboard

SpecLeaderboard == LeaderboardInit /\ [][LeaderboardNext]_vars

-----------------------------------------------------------------------------
(* SpecMetrics: POST /metrics/record and GET /metrics/leaderboard *)

\* The most metrics a behaviour records.
MaxMetrics == 3

\* The largest latency of a metric, in units of the caller's choice.
MaxLatency == 2

\* The largest limit asked of the metrics leaderboard.
MaxLimit == 3

\* The names ocr_task records its metrics under, and a third one.
MetricModels == {"pytesseract", "PaddleOCR", "BLIP-2"}

MetricsInit ==
    /\ TextIdle
    /\ CascadeIdle
    /\ DispatchIdle
    /\ AnalyzeIdle
    /\ HandlersIdle
    /\ BoardsIdle

\* One POST /metrics/record.
RecordMetric ==
    /\ Len(model_metrics) < MaxMetrics
    /\ \E name \in MetricModels, latency \in 1..MaxLatency :
          model_metrics' = record_metric(model_metrics, name, latency, "OCR")
    /\ metric_board' = NoMetricBoard
    /\ UNCHANGED <<board_logs, task_filter, log_board>>
    /\ UNCHANGED notBoards

\* One GET /metrics/leaderboard?limit=<limit>.
MetricsLeaderboard ==
    /\ \E limit \in (-1)..MaxLimit :
          metric_board' = metrics_get_leaderboard(model_metrics, limit)
    /\ UNCHANGED <<board_logs, task_filter, log_board, model_metrics>>
    /\ UNCHANGED notBoards

MetricsNext ==
    \/ RecordMetric
    \/ MetricsLeaderboard

SpecMetrics == MetricsInit /\ [][MetricsNext]_vars

-----------------------------------------------------------------------------
(* The claims about the text functions *)

\* The vocabulary in its declared order.
DeclaredOrder ==
    <<"OCR", "Image Captioning", "Visual QA", "Image Classification",
      "Object Detection", "Style Transfer", "Medical Diagnosis", "Other">>

Punctuation == {".", ",", "?", "!"}

RECURSIVE WithoutPunctuation(_)
WithoutPunctuation(s) ==
    IF Len(s) = 0 THEN ""
    ELSE (IF SubSeq(s, 1, 1) \in Punctuation THEN "" ELSE LowerChar(SubSeq(s, 1, 1)))
         \o WithoutPunctuation(SubSeq(s, 2, Len(s)))

\* Positions, in the declared order, of the labels whose display string occurs
\* in the response, case-insensitively, once the punctuation is removed.
Occurring(response) ==
    {i \in 1..Len(DeclaredOrder) :
        In(lower(DeclaredOrder[i]), WithoutPunctuation(response))}

Earliest(S) == CHOOSE i \in S : \A j \in S : i <= j

NormalizedAsClaimed(response, label) ==
    LET occ == Occurring(response) IN
    /\ label \in TaskLabel
    /\ Cardinality(occ) = 1 => \A i \in occ : label = DeclaredOrder[i]
    /\ Cardinality(occ) > 1 => label = DeclaredOrder[Earliest(occ)]
    /\ occ = {} => label = "Other"

\* C8: parse_task_from_response (both copies) returns the one vocabulary label
\* that occurs in the response, the earliest in declared order when several
\* occur, "Other" when none occurs, and always one of the eight labels.
C8_NormalizerReturnsEarliestOccurring ==
    /\ parsed # None => NormalizedAsClaimed(text, parsed)
    /\ parsedC # None => NormalizedAsClaimed(text, parsedC)

\* C8 witness: a response normalized by both copies in which several labels
\* occur, one of them only once its punctuation is removed.
C8_SeveralLabelsOccur ==
    /\ parsed # None
    /\ parsedC # None
    /\ Cardinality(Occurring(text)) > 1
    /\ \E i \in Occurring(text) : ~In(lower(DeclaredOrder[i]), lower(text))

\* The keyword groups in the order the claim gives them.
ClaimedGroups ==
    << [label |-> "Medical Diagnosis", keywords |-> medical_keywords],
       [label |-> "OCR", keywords |-> ocr_keywords],
       [label |-> "Image Classification", keywords |-> classification_keywords],
       [label |-> "Object Detection", keywords |-> object_keywords],
       [label |-> "Style Transfer", keywords |-> style_keywords],
       [label |-> "Image Captioning", keywords |-> caption_keywords],
       [label |-> "Visual QA", keywords |-> vqa_keywords] >>

Matching(q) ==
    {g \in 1..Len(ClaimedGroups) :
        \E k \in 1..Len(ClaimedGroups[g].keywords) :
            In(ClaimedGroups[g].keywords[k], lower(q))}

GenericVisualQuestion(q) ==
    \E w \in {"what", "where", "how"} : startswith(lower(q), w)

\* C9: mock_classify_task returns the label of the first matching keyword group
\* in the order Medical Diagnosis, OCR, Image Classification, Object Detection,
\* Style Transfer, Image Captioning, Visual QA keywords, then Visual QA for a
\* question starting with what/where/how, and "Other" otherwise; a question
\* with a medical and an OCR keyword is labelled Medical Diagnosis.
C9_KeywordGroupsInOrder ==
    mocked # None =>
        /\ Matching(text) # {} =>
              mocked = ClaimedGroups[Earliest(Matching(text))].label
        /\ (Matching(text) = {} /\ GenericVisualQuestion(text)) => mocked = "Visual QA"
        /\ (Matching(text) = {} /\ ~GenericVisualQuestion(text)) => mocked = "Other"
        /\ ({1, 2} \subseteq Matching(text)) => mocked = "Medical Diagnosis"

\* C9 witness: a classified question holding a medical and an OCR keyword.
C9_MedicalAndOcrKeywords ==
    /\ mocked = "Medical Diagnosis"
    /\ any_in(medical_keywords, lower(text))
    /\ any_in(ocr_keywords, lower(text))

-----------------------------------------------------------------------------
(* The claims about the endpoint prober *)

\* The candidates in the order the claim gives: api_url, then fallback_urls.
ClaimedCandidates == <<api_url>> \o fallback_urls

\* A HEAD probe that answered with a status below 500.
Answered(p) == ~p.raised /\ p.status < 500

\* C5: _find_working_endpoint returns the first URL, in the order api_url then
\* fallback_urls, whose HEAD probe answers with a status < 500 (a probe that
\* raises or answers >= 500 counts as unreachable), and None exactly when every
\* candidate is unreachable.
C5_ReturnsFirstReachable ==
    prober_state = "returned" =>
        LET n == Len(probe_log) IN
        /\ n <= Len(ClaimedCandidates)
        /\ \A k \in 1..n : probe_log[k].url = ClaimedCandidates[k]
        /\ working_url # None =>
              /\ n >= 1
              /\ working_url = ClaimedCandidates[n]
              /\ Answered(probe_log[n])
              /\ \A j \in 1..(n - 1) : ~Answered(probe_log[j])
        /\ working_url = None <=>
              /\ n = Len(ClaimedCandidates)
              /\ \A k \in 1..n : ~Answered(probe_log[k])

\* C5 witness: a run that returned a URL answering 499 after one candidate
\* raised and another answered 500.
C5_ReturnedAfterFaultAnd500 ==
    /\ prober_state = "returned"
    /\ working_url # None
    /\ probe_log[Len(probe_log)].status = 499
    /\ \E j \in 1..(Len(probe_log) - 1) : probe_log[j].raised
    /\ \E j \in 1..(Len(probe_log) - 1) : ~probe_log[j].raised /\ probe_log[j].status = 500

\* C6: within one run of _find_working_endpoint the candidates are probed in
\* list order and none after the first reachable one; the number of probes is
\* the position of the first reachable candidate, or the list length when none
\* is reachable.
C6_ProbesInOrderShortCircuit ==
    LET n == Len(probe_log)
        reachable == {k \in 1..n : Answered(probe_log[k])}
    IN
    /\ n <= Len(urls_to_try)
    /\ \A k \in 1..n : probe_log[k].url = urls_to_try[k]
    /\ \A k \in reachable : k = n
    /\ prober_state = "running" => reachable = {} /\ n < Len(urls_to_try)
    /\ prober_state = "returned" =>
          n = IF reachable # {} THEN Earliest(reachable) ELSE Len(urls_to_try)

\* C6 witness: generate's prober run returned at a reachable candidate in the
\* middle of the list, leaving the later candidates unprobed.
C6_ReturnedMidList ==
    /\ pc = "find_generate"
    /\ prober_state = "returned"
    /\ working_url # None
    /\ Len(probe_log) > 1
    /\ Len(probe_log) < Len(urls_to_try)

-----------------------------------------------------------------------------
(* The claims about the classifier cascade *)

\* C1: classify_task_with_qwen never raises and always returns one of the eight
\* canonical labels, whatever the flag and whatever each tier meets.
C1_AlwaysReturnsALabel ==
    /\ pc # "raised"
    /\ pc = "returned" => result \in TaskLabel

\* A remote tier failed: it met a network fault or a status other than 200.
RemoteFailed(a) ==
    \/ a.fault \in {"ConnectionError", "Timeout"}
    \/ a.fault = "none" /\ a.status # 200

\* The Cerebras tier was entered and failed: no candidate endpoint reachable,
\* or the completion request failed.
CerebrasFailed == answer.cerebras = Unreachable \/ RemoteFailed(answer.cerebras)

\* C2: when every network tier fails (Cerebras disabled or unreachable, primary
\* remote non-200 or network fault, local model fails), the returned label is
\* the keyword classifier's label for the question.
C2_KeywordFallbackWhenAllFail ==
    ( /\ pc = "returned"
      /\ ~use_cerebras \/ answer.cerebras = Unreachable
      /\ RemoteFailed(answer.primary)
      /\ answer.local.fault = "OSError" )
    => result = mock_classify_task(question)

\* C3: a Cerebras tier that is enabled and fails is followed by an attempt of
\* the primary remote; the failed tier does not produce the returned label.
C3_FailedCerebrasFallsThrough ==
    (pc = "returned" /\ CerebrasFailed) =>
        \E k \in 1..Len(attempted) : attempted[k] = "primary"

\* A tier succeeded: its remote end answered 200 with a text (the local model:
\* decoded a text).
Succeeded(a) == a.fault = "none" /\ a.body = "text"

Tried(tier) == \E k \in 1..Len(attempted) : attempted[k] = tier

\* C4: tiers are attempted in the order Cerebras (only with the flag on),
\* primary remote, local model; once a tier succeeds its normalized label is
\* returned and no later tier is attempted; a later tier is attempted only
\* after every earlier enabled tier has failed.
C4_TiersInOrderShortCircuit ==
    /\ attempted \in {<<>>, <<"cerebras">>, <<"primary">>, <<"cerebras", "primary">>,
                      <<"primary", "local">>, <<"cerebras", "primary", "local">>}
    /\ Tried("cerebras") => use_cerebras
    /\ Succeeded(answer.cerebras) =>
          /\ attempted = <<"cerebras">>
          /\ pc = "returned"
          /\ result = cerebras_parse_task_from_response(answer.cerebras.text)
    /\ Succeeded(answer.primary) =>
          /\ ~Tried("local")
          /\ pc = "returned"
          /\ result = parse_task_from_response(answer.primary.text)
    /\ Succeeded(answer.local) =>
          /\ pc = "returned"
          /\ result = parse_task_from_response(answer.local.text)
    /\ (Tried("primary") /\ use_cerebras) => ~Succeeded(answer.cerebras)
    /\ Tried("local") => ~Succeeded(answer.primary)

\* C7: during one call_cerebras_qwen, its call to client.generate included,
\* each candidate URL receives at most one HEAD probe.
C7_EachUrlProbedAtMostOnce ==
    \A u \in CandidateUrls : probe_count[u] <= 1

\* A remote tier answered 200 with a malformed body: neither a "response"
\* nor a "text" field, or an empty text.
Malformed(a) ==
    /\ a.fault = "none"
    /\ a.status = 200
    /\ a.body = "no_field" \/ (a.body = "text" /\ a.text = "")

\* C20: a remote tier that answered with a malformed body counts as failed:
\* the cascade goes on to the next tier (primary after Cerebras, local after
\* primary) and returns no label derived from that answer.
C20_MalformedAnswerAdvances ==
    /\ Malformed(answer.cerebras) => (pc = "primary" \/ Tried("primary"))
    /\ Malformed(answer.primary) => (pc = "local" \/ Tried("local"))

-----------------------------------------------------------------------------
(* The claims about the dispatcher *)

\* C10: for task OCR handle_task chooses between exactly the two endpoints
\* "ocr" and "simocr", never another one, and each choice carries its own
\* model name: "ocr" with "pytesseract", "simocr" with "simocr".
C10_OcrSplitsBetweenTwoHandlers ==
    /\ ocr_endpoints \subseteq {"ocr", "simocr"}
    /\ (task = "OCR" /\ h_pc \in {"posted", "done"}) =>
          /\ endpoint \in {"ocr", "simocr"}
          /\ endpoint = "ocr" => model_used = "pytesseract"
          /\ endpoint = "simocr" => model_used = "simocr"

\* C10 witness: both endpoints have been chosen for OCR, the last time "simocr".
C10_BothOcrHandlersChosen ==
    /\ ocr_endpoints = {"ocr", "simocr"}
    /\ task = "OCR"
    /\ h_pc = "posted"
    /\ endpoint = "simocr"
    /\ model_used = "simocr"

\* The calls so far whose task is a label other than OCR.
NonOcrChoices == {c \in choices : c[1] \in TaskLabel \ {"OCR"}}

\* The handler behind the route answered the POST of the current call.
HandlerReplied ==
    /\ h_pc = "done"
    /\ h_response.fault = "none"
    /\ h_response.status = 200
    /\ h_response.body = "result"

\* C11 as stated: a label other than OCR always selects the same endpoint,
\* two distinct labels other than OCR never select the same endpoint, and
\* "Other" selects the handler that reports "Task not supported".
C11_NonOcrLabelsOneToOne ==
    /\ \A c, d \in NonOcrChoices : (c[1] = d[1]) <=> (c[2] = d[2])
    /\ (task = "Other" /\ HandlerReplied) =>
          endpoint = "other" /\ handled.result = "Task not supported"

\* The endpoint each label other than OCR selects.
SelectedEndpoint(t) ==
    CASE t = "Image Captioning" -> "caption"
      [] t = "Visual QA" -> "vqa"
      [] t = "Medical Diagnosis" -> "medical"
      [] t \in {"Image Classification", "Object Detection", "Style Transfer", "Other"} ->
             "other"

\* C11, amended: a label other than OCR always selects the same endpoint;
\* Image Captioning, Visual QA and Medical Diagnosis select an endpoint of
\* their own (caption, vqa, medical), while Image Classification, Object
\* Detection, Style Transfer and Other all select "other", whose handler
\* reports "Task not supported".
C11_NonOcrLabelsDeterministic ==
    /\ \A c, d \in NonOcrChoices : (c[1] = d[1]) => (c[2] = d[2])
    /\ \A c \in NonOcrChoices : c[2] = SelectedEndpoint(c[1])
    /\ (task \in {"Image Classification", "Object Detection", "Style Transfer", "Other"}
          /\ HandlerReplied) =>
          endpoint = "other" /\ handled.result = "Task not supported"

\* C11 witness: Image Classification and Medical Diagnosis were dispatched
\* before, and the handler of "other" has answered a call for Other.
C11_SharedAndOwnEndpointsChosen ==
    /\ <<"Image Classification", "other">> \in choices
    /\ <<"Medical Diagnosis", "medical">> \in choices
    /\ task = "Other"
    /\ endpoint = "other"
    /\ HandlerReplied
    /\ handled.result = "Task not supported"

\* C12: a call for Medical Diagnosis selects the endpoint "medical", and when
\* its handler has answered, the model handle_task returns (the one the log
\* entry and the analyze response carry) is "ResNet-50".
C12_MedicalReportsResNet50 ==
    /\ (task = "Medical Diagnosis" /\ h_pc \in {"posted", "done"}) => endpoint = "medical"
    /\ (task = "Medical Diagnosis" /\ HandlerReplied) => handled.model = "ResNet-50"

-----------------------------------------------------------------------------
(* The claims about analyze requests and the log store *)

\* Request r's invocation of its handler threw: the POST raised, or the body
\* of a 200 answer did not decode.
Threw(r) ==
    \/ locals[r].response.fault \in {"ConnectError", "ReadTimeout"}
    \/ /\ locals[r].response.fault = "none"
       /\ locals[r].response.status = 200
       /\ locals[r].response.body = "undecodable"

\* C13: a request whose handler invocation threw gets the model "error" from
\* handle_task, and when it has ended it has returned normally (status 200)
\* with model "error" and a latency >= 0, having appended exactly one entry.
C13_HandlerFaultStillLogsOnce ==
    \A r \in Requests :
        /\ (Threw(r) /\ a_pc[r] \in {"read", "opened", "returned", "failed"}) =>
              locals[r].model_used = "error"
        /\ (Threw(r) /\ a_pc[r] \in {"returned", "failed"}) =>
              /\ a_pc[r] = "returned"
              /\ returned[r].status = 200
              /\ returned[r].body.model = "error"
              /\ returned[r].body.latency >= 0
              /\ appends[r] = 1

\* Request r has completed: its caller received the analysis.
Completed(r) == a_pc[r] = "returned" /\ returned[r].status = 200

\* The positions of logs.json that hold an entry with the id of request r.
PositionsOf(r) ==
    {i \in 1..Len(logs_file.logs) : logs_file.logs[i].id = uuid4(r)}

\* C14: when every request that arrived has completed, logs.json holds
\* exactly one entry per request, under that request's own id: none is
\* lost, none is there twice.
C14_OneEntryPerCompletedRequest ==
    (\A r \in Requests : a_pc[r] = "idle" \/ Completed(r)) =>
        \A r \in Requests :
            /\ Completed(r) => logs_file.state = "list"
            /\ Cardinality(PositionsOf(r)) = IF Completed(r) THEN 1 ELSE 0

\* The ids no request has written to logs.json and no former run left there.
NeverWritten == {"invalid-id"} \cup {uuid4(r) : r \in {q \in Requests : appends[q] = 0}}

\* C15: get_result(X) for the id X of a request that appended its entry and
\* returned X answers with that entry, and get_result(Y) for an id Y never
\* written answers 404 (an HTTPException), whether or not logs.json exists.
C15_LookupRoundTrip ==
    /\ \A r \in Requests :
          (Completed(r) /\ looked_up.result_id = uuid4(r)) =>
              /\ looked_up.status = 200
              /\ looked_up.entry = locals[r].log_entry
    /\ looked_up.result_id \in NeverWritten =>
          /\ looked_up.raised = "HTTPException"
          /\ looked_up.status = 404

\* The entries of a are the first entries of b, in the same order.
IsPrefix(a, b) == Len(a) <= Len(b) /\ SubSeq(b, 1, Len(a)) = a

\* The request has ended: with a response, with an error, or aborted.
Ended(p) == p \in {"returned", "failed", "aborted"}

\* C16: at the step that ends an analyze request, every entry logs.json held
\* when the request arrived is still there, unchanged and in the same order.
C16_LogIsAppendOnly ==
    [][\A r \in Requests :
          (~Ended(a_pc[r]) /\ Ended(a_pc'[r])) =>
              IsPrefix(locals[r].before, read_logs(logs_file'))]_vars

\* Request r has computed its analysis: handle_task returned and the log
\* entry is built, so only the log write stands before the response.
Computed(r) == locals[r].log_entry.id # None

\* C17: a request that has computed its analysis ends with a normal response
\* carrying the task, result, model and latency, also when logs.json could
\* not be opened or written.
C17_WriteFailureStillAnswers ==
    \A r \in Requests :
        (Computed(r) /\ Ended(a_pc[r])) =>
            /\ returned[r].status = 200
            /\ returned[r].body.task = locals[r].task
            /\ returned[r].body.result = locals[r].result
            /\ returned[r].body.model = locals[r].model_used
            /\ returned[r].body.latency = locals[r].total_latency

\* C18: a call of get_result on a logs.json that does not decode ends as a
\* lookup failure (HTTPException 404), never with an exception that nothing
\* handles.
C18_CorruptStoreIsNotFound ==
    (looked_up.result_id # None /\ logs_file.state = "corrupt") =>
        /\ looked_up.raised = "HTTPException"
        /\ looked_up.status = 404

\* handle_task has returned to request r.
HandleTaskReturned(r) == locals[r].response.fault # "not called"

\* C19: logs.json changes only in steps of a request whose handle_task has
\* returned; a request writes its entry only after that and has written it
\* when its response is returned; a request that ends before handle_task
\* returned (rejected, failed or aborted) has written nothing.
C19_LogWrittenAfterHandlerBeforeResponse ==
    [][/\ \A r \in Requests :
             /\ appends'[r] > 0 => HandleTaskReturned(r)
             /\ Completed(r)' => appends'[r] = 1
             /\ (~HandleTaskReturned(r))' => (appends'[r] = 0 /\ PositionsOf(r)' = {})
             /\ (a_pc'[r] # a_pc[r] /\ ~HandleTaskReturned(r)) => logs_file' = logs_file
       /\ logs_file' # logs_file =>
             \E r \in Requests : HandleTaskReturned(r) /\ a_pc'[r] # a_pc[r]]_vars

\* C19 witness: one request was aborted while it awaited its handler and
\* wrote nothing, another has returned its response and its entry is in the
\* file.
C19_AbortedAndCompleted ==
    /\ a_pc[1] = "aborted"
    /\ appends[1] = 0
    /\ Completed(2)
    /\ appends[2] = 1
    /\ PositionsOf(2) # {}

-----------------------------------------------------------------------------
(* The claims about the task handlers *)

\* The handler has answered the call.
Replied == t_reply # NoReply

C22_MissingImageReportsPaddleOCR ==
    (Replied /\ t_call.endpoint = "ocr" /\ ~t_call.image_exists) =>
        /\ t_reply.status = 200
        /\ t_reply.result = "Image file not found"
        /\ t_reply.model_name = "PaddleOCR"

-----------------------------------------------------------------------------
(* The claims about the leaderboards *)

\* GET /leaderboard has answered with its rows.
BoardAnswered == log_board.status = 200

\* The positions of the log entries the leaderboard is to consider: all of
\* them, or those of the task asked for.
ConsideredAt ==
    {i \in 1..Len(board_logs.logs) :
        task_filter \in {None, ""} \/ board_logs.logs[i].task = task_filter}

\* The positions of the considered entries of model m.
EntriesOf(m) == {i \in ConsideredAt : board_logs.logs[i].model = m}

RECURSIVE LatencyOver(_)
LatencyOver(S) ==
    IF S = {} THEN 0
    ELSE LET i == CHOOSE x \in S : TRUE
         IN  board_logs.logs[i].latency + LatencyOver(S \ {i})

\* One row per distinct model of the considered entries, each with the number
\* of that model's entries.
RowsCountRuns ==
    LET rows == log_board.rows
    IN  /\ {rows[k].model : k \in 1..Len(rows)} =
              {board_logs.logs[i].model : i \in ConsideredAt}
        /\ \A k, l \in 1..Len(rows) : rows[k].model = rows[l].model => k = l
        /\ \A k \in 1..Len(rows) : rows[k].runs = Cardinality(EntriesOf(rows[k].model))

\* The rows ascend by the average they report.
RowsAscend ==
    \A k \in 1..(Len(log_board.rows) - 1) :
        log_board.rows[k].average_latency <= log_board.rows[k + 1].average_latency

\* C23 as stated: one row per distinct model of the entries considered, its
\* run count the number of those entries, its average the total latency
\* divided by the run count, the rows ascending by average.
C23_AverageIsTotalOverRuns ==
    BoardAnswered =>
        /\ RowsCountRuns
        /\ \A k \in 1..Len(log_board.rows) :
              log_board.rows[k].average_latency * log_board.rows[k].runs =
                  LatencyOver(EntriesOf(log_board.rows[k].model))
        /\ RowsAscend

\* C23 amended: as stated, but the average a row reports is the total latency
\* divided by the run count rounded to two decimals (within half a hundredth
\* of the exact average), and the rows ascend by that reported average.
C23_AverageIsRoundedTotalOverRuns ==
    BoardAnswered =>
        /\ RowsCountRuns
        /\ \A k \in 1..Len(log_board.rows) :
              LET row == log_board.rows[k]
                  off == row.average_latency * row.runs - LatencyOver(EntriesOf(row.model))
              IN  /\ 2 * off <= row.runs
                  /\ 2 * off >= 0 - row.runs
        /\ RowsAscend

\* C23 witness: under a task filter that leaves an entry out, the board has
\* two rows, the first for the model logged last, and one average that is not
\* a whole number of hundredths.
C23_FilteredBoardWithInexactAverage ==
    /\ BoardAnswered
    /\ task_filter = "OCR"
    /\ Cardinality(ConsideredAt) < Len(board_logs.logs)
    /\ Len(log_board.rows) = 2
    /\ log_board.rows[1].model # board_logs.logs[1].model
    /\ \E k \in 1..2 :
          LatencyOver(EntriesOf(log_board.rows[k].model)) % log_board.rows[k].runs # 0

\* The metrics leaderboard has answered a request with limit N >= 0.
MetricsAnswered == metric_board.status = 200 /\ metric_board.limit >= 0

\* The models recorded so far.
Recorded == {model_metrics[i].model_name : i \in 1..Len(model_metrics)}

\* The least latency recorded for model m.
MinLatency(m) ==
    CHOOSE x \in {model_metrics[i].latency :
                     i \in {j \in 1..Len(model_metrics) : model_metrics[j].model_name = m}} :
        \A i \in 1..Len(model_metrics) :
            model_metrics[i].model_name = m => x <= model_metrics[i].latency

\* C24: with limit N >= 0 the metrics leaderboard returns at most N rows, at
\* most one per model, each with the least latency recorded for its model,
\* ascending by latency, and they are the N models of least such latency:
\* min(N, number of models) rows, no model left out being faster than one
\* returned.
C24_TopNFastestPerModel ==
    MetricsAnswered =>
        LET rows == metric_board.rows
            shown == {rows[k].model_name : k \in 1..Len(rows)}
        IN  /\ Len(rows) <= metric_board.limit
            /\ \A k, l \in 1..Len(rows) : rows[k].model_name = rows[l].model_name => k = l
            /\ shown \subseteq Recorded
            /\ \A k \in 1..Len(rows) : rows[k].latency = MinLatency(rows[k].model_name)
            /\ \A k \in 1..(Len(rows) - 1) : rows[k].latency <= rows[k + 1].latency
            /\ Len(rows) = IF Cardinality(Recorded) < metric_board.limit
                           THEN Cardinality(Recorded) ELSE metric_board.limit
            /\ \A m \in Recorded \ shown : \A n \in shown : MinLatency(n) <= MinLatency(m)

\* C24 witness: two models were recorded, one of them twice with the slower
\* run first; limit 1 returns the faster model and leaves the other out.
C24_OneOfTwoModelsReturned ==
    /\ MetricsAnswered
    /\ metric_board.limit = 1
    /\ Cardinality(Recorded) = 2
    /\ Len(model_metrics) = 3
    /\ Len(metric_board.rows) = 1
    /\ \E i, j \in 1..Len(model_metrics) :
          /\ i < j
          /\ model_metrics[i].model_name = model_metrics[j].model_name
          /\ model_metrics[j].latency < model_metrics[i].latency

-----------------------------------------------------------------------------
(* Further claims about the dispatcher, the cascade and analyze requests *)

\* The handler of request r answered 200 with a body that holds a result.
HandlerAnswered200(r) ==
    /\ locals[r].response.fault = "none"
    /\ locals[r].response.status = 200
    /\ locals[r].response.body = "result"

\* C26: for a completed analyze request whose handler answered 200, the model
\* in its log entry and in its response is the model_name the handler
\* reported.
C26_LoggedModelIsHandlersModel ==
    \A r \in Requests :
        (Completed(r) /\ HandlerAnswered200(r)) =>
            /\ locals[r].log_entry.model = locals[r].response.model_name
            /\ returned[r].body.model = locals[r].response.model_name

C28_ReturnedIsLoggedAndLookedUp ==
    \A r \in Requests :
        Completed(r) =>
            /\ appends[r] = 1
            /\ returned[r].body.id = locals[r].log_entry.id
            /\ returned[r].body.task = locals[r].log_entry.task
            /\ returned[r].body.model = locals[r].log_entry.model
            /\ returned[r].body.result = locals[r].log_entry.result
            /\ looked_up.result_id = returned[r].body.id =>
                  /\ looked_up.status = 200
                  /\ looked_up.entry.task = returned[r].body.task
                  /\ looked_up.entry.model = returned[r].body.model
                  /\ looked_up.entry.result = returned[r].body.result

\* Request r arrived with a content type that is neither image/jpeg nor
\* image/png.
WrongType(r) ==
    a_pc[r] # "idle" /\ locals[r].content_type \notin {"image/jpeg", "image/png"}

\* C29: a request with a content type other than image/jpeg and image/png is
\* answered 400 and nothing else happens: no upload is saved, no task is
\* classified, no handler is called, and logs.json is as it was, in the step
\* that rejects the request and in every later step of it.
C29_WrongTypeRejectedWithoutEffect ==
    [][\A r \in Requests :
          WrongType(r)' =>
              /\ a_pc'[r] = "returned"
              /\ returned'[r] = [NoResponse EXCEPT !.status = 400]
              /\ locals'[r].file_path = None
              /\ locals'[r].task = None
              /\ locals'[r].endpoint = None
              /\ locals'[r].response = NoLocals.response
              /\ locals'[r].log_entry = NoEntry
              /\ appends'[r] = 0
              /\ PositionsOf(r)' = {}
              /\ a_pc[r] = "idle" => logs_file' = logs_file]_vars

\* C29 witness: a request was rejected with 400 while logs.json held entries,
\* and another request was accepted and completed.
C29_RejectedBesideCompleted ==
    /\ WrongType(1)
    /\ returned[1].status = 400
    /\ Completed(2)
    /\ Len(logs_file.logs) = 2

\* C30: a task string that is no key of the mapping is sent to the endpoint
\* "other", and every call of handle_task goes on to return a pair of a
\* result and a model name.
C30_HandleTaskTotal ==
    /\ (h_pc \in {"posted", "done"} /\ task \notin DOMAIN task_mapping) => endpoint = "other"
    /\ h_pc \in {"posted", "done"} => endpoint \in Endpoints
    /\ h_pc = "called" => ENABLED ChooseEndpoint
    /\ h_pc = "posted" => ENABLED HandlerAnswered
    /\ h_pc = "done" =>
          /\ DOMAIN handled = {"result", "model"}
          /\ handled.result # None
          /\ handled.model # None

\* C30 witness: handle_task was called with a text that is no label, chose
\* "other" and returned that handler's reply.
C30_UnknownTaskHandledByOther ==
    /\ h_pc = "done"
    /\ task \notin DOMAIN task_mapping
    /\ endpoint = "other"
    /\ handled.result = "Task not supported"

====
